---- MODULE Spec2Model ----
(***************************************************************************)
(* Model of the archive mutation engine of pedroalbanese/tar               *)
(* (src/cmd/tar/main.go): append, update, delete and reorganize of a tar   *)
(* file, the collision probe used by append, and the canonical member      *)
(* order.                                                                  *)
(*                                                                         *)
(* A Go string is modelled as the sequence of its bytes, each byte written *)
(* as a one-character string: "a/b" is <<"a", "/", "b">>.  Bytes compare   *)
(* by their position in Alphabet, which lists them in ASCII order.         *)
(***************************************************************************)
EXTENDS Integers, Sequences, FiniteSets, TLC

VARIABLES
    disk,       \* the archive file: [members, closed, padded]
    compress,   \* flag -z
    op,         \* the operation main is running: "idle", "append", "update", "delete", "reorganize"
    fn,         \* the function the operation is in: "none", "walk", "appendc", "update", "delete", "reorganize"
    pc,         \* the position inside fn
    todo,       \* what is left of the arguments: paths still to walk, or the delete patterns
    fileData,   \* the decoded map name -> entry (fileData / existingFiles)
    buffer,     \* the memory buffer and its writers: [members, twClosed, cwClosed]
    twRem,      \* bytes the entry open in main's tar writer still misses (uncompressed append)
    pre,        \* history: disk when the operation started
    fnPre,      \* history: disk when the running rebuild function started
    result,     \* outcome of the last finished operation
    last,       \* history: what the last walkpath call did
    hist,       \* history: counters and facts about earlier steps
    invocation, \* the command line: [next, order, args]; next = the mutation main runs after the delete
    codec       \* the codec adapter on its own: [algorithm, level, payload, phase, ...]

vars == <<disk, compress, op, fn, pc, todo, fileData, buffer, twRem, pre, fnPre, result, last, hist,
          invocation, codec>>

(***************************************************************************)
(* Bounds of the model.                                                    *)
(***************************************************************************)
MaxMembers == 2     \* members of the archive an operation is started on
MaxOps == 2         \* operations run one after the other on the archive

(***************************************************************************)
(* Bytes and strings.                                                      *)
(***************************************************************************)
Alphabet == <<"*", "+", "-", ".", "/", "0", "1", "2", "3", "4", "5", "6", "7", "8", "9",
              "N", "Y", "[", "_", "a", "b", "c", "d", "e", "g", "h", "k", "l", "n", "o", "p", "r",
              "s", "t", "x", "y">>

Codes == [ch \in {Alphabet[i] : i \in 1..Len(Alphabet)} |->
             CHOOSE i \in 1..Len(Alphabet) : Alphabet[i] = ch]

Code(ch) == Codes[ch]

\* Go's < on strings: bytewise lexicographic, a proper prefix first.
RECURSIVE StrLess(_, _)
StrLess(s, t) ==
    IF t = <<>> THEN FALSE
    ELSE IF s = <<>> THEN TRUE
    ELSE IF Head(s) = Head(t) THEN StrLess(Tail(s), Tail(t))
    ELSE Code(Head(s)) < Code(Head(t))

HasPrefix(s, p) == Len(s) >= Len(p) /\ SubSeq(s, 1, Len(p)) = p

HasSuffix(s, p) == Len(s) >= Len(p) /\ SubSeq(s, Len(s) - Len(p) + 1, Len(s)) = p

TrimSuffix(s, p) == IF HasSuffix(s, p) THEN SubSeq(s, 1, Len(s) - Len(p)) ELSE s

\* strings.Split(s, sep) for a one-byte separator: the fields between the separators.
RECURSIVE SplitFrom(_, _, _)
SplitFrom(s, sep, cur) ==
    IF s = <<>> THEN <<cur>>
    ELSE IF Head(s) = sep THEN <<cur>> \o SplitFrom(Tail(s), sep, <<>>)
    ELSE SplitFrom(Tail(s), sep, Append(cur, Head(s)))

Split(s, sep) == SplitFrom(s, sep, <<>>)

PathSeparator == "/"

(***************************************************************************)
(* sortedKeys: the less function and the stable sort.                      *)
(***************************************************************************)
\* A plausible slip: comparing the whole names as strings.
LessWholeName(a, b) == StrLess(a, b)

\* A plausible slip: a less function that ignores its arguments.
LessAlways(a, b) == TRUE

\* A plausible slip: when one name runs out first, the longer one is put first.
RECURSIVE LessPartsDeeperFirst(_, _, _)
LessPartsDeeperFirst(pi, pj, k) ==
    IF k <= Len(pi) /\ k <= Len(pj)
    THEN IF pi[k] = pj[k] THEN LessPartsDeeperFirst(pi, pj, k + 1) ELSE StrLess(pi[k], pj[k])
    ELSE Len(pi) > Len(pj)

\* The closure given to sort.SliceStable.
RECURSIVE LessParts(_, _, _)
LessParts(pi, pj, k) ==
    IF k <= Len(pi) /\ k <= Len(pj)
    THEN IF pi[k] = pj[k] THEN LessParts(pi, pj, k + 1) ELSE StrLess(pi[k], pj[k])
    ELSE Len(pi) < Len(pj)

Less(a, b) == LessParts(Split(a, PathSeparator), Split(b, PathSeparator), 1)

\* sort.SliceStable on fewer than 20 elements is an insertion sort: each element
\* moves left while it is less than its left neighbour.
RECURSIVE InsertSorted(_, _)
InsertSorted(sorted, x) ==
    IF sorted = <<>> THEN <<x>>
    ELSE IF Less(x, sorted[Len(sorted)])
         THEN Append(InsertSorted(SubSeq(sorted, 1, Len(sorted) - 1), x), sorted[Len(sorted)])
         ELSE Append(sorted, x)

RECURSIVE SliceStable(_)
SliceStable(keys) ==
    IF keys = <<>> THEN <<>>
    ELSE InsertSorted(SliceStable(SubSeq(keys, 1, Len(keys) - 1)), keys[Len(keys)])

\* "for key := range m" on a Go map of up to eight entries (one bucket) starts at
\* a random slot and wraps around: the keys come in a rotation of the order in
\* which they were first stored.  The map is modelled as the sequence of its slots.
Rotation(keys, k) == SubSeq(keys, k + 1, Len(keys)) \o SubSeq(keys, 1, k)

RangeOrders(keys) == IF keys = <<>> THEN {<<>>} ELSE {Rotation(keys, k) : k \in 0..(Len(keys) - 1)}

\* A plausible slip: the keys are returned as the map gave them, unsorted.
sortedKeysUnsorted(order) == order

sortedKeys(order) == SliceStable(order)

(***************************************************************************)
(* Library functions the collision probe and the delete filter use.        *)
(***************************************************************************)
Digits == {"0", "1", "2", "3", "4", "5", "6", "7", "8", "9"}

\* strconv.Atoi(s) succeeds: an optional sign, then at least one decimal digit.
AtoiOk(s) ==
    LET body == IF s # <<>> /\ Head(s) \in {"+", "-"} THEN Tail(s) ELSE s
    IN  body # <<>> /\ \A i \in 1..Len(body) : body[i] \in Digits

\* fmt.Sprintf("%d", n) for n >= 0.
RECURSIVE Itoa(_)
Itoa(n) ==
    IF n < 10 THEN <<Alphabet[Code("0") + n]>>
    ELSE Append(Itoa(n \div 10), Alphabet[Code("0") + (n % 10)])

\* filepath.Ext: the suffix from the last dot of the last path element, or "".
RECURSIVE ExtFrom(_, _)
ExtFrom(path, i) ==
    IF i < 1 \/ path[i] = PathSeparator THEN <<>>
    ELSE IF path[i] = "." THEN SubSeq(path, i, Len(path))
    ELSE ExtFrom(path, i - 1)

Ext(path) == ExtFrom(path, Len(path))

\* A plausible slip: the answer is compared as typed, without strings.ToLower.
LowerByteIdentity(ch) == ch

\* strings.ToLower on the bytes of the model.
LowerByte(ch) == IF ch = "Y" THEN "y" ELSE IF ch = "N" THEN "n" ELSE ch

ToLower(s) == [i \in 1..Len(s) |-> LowerByte(s[i])]

\* filepath.Match for patterns made of literal bytes, "*" and "?"; a pattern
\* holding "[" stands for an unterminated character class (ErrBadPattern).
RECURSIVE GlobMatches(_, _)
GlobMatches(pattern, name) ==
    IF pattern = <<>> THEN name = <<>>
    ELSE IF Head(pattern) = "*"
         THEN \/ GlobMatches(Tail(pattern), name)
              \/ name # <<>> /\ Head(name) # PathSeparator /\ GlobMatches(pattern, Tail(name))
    ELSE IF Head(pattern) = "?"
         THEN name # <<>> /\ Head(name) # PathSeparator /\ GlobMatches(Tail(pattern), Tail(name))
    ELSE name # <<>> /\ Head(name) = Head(pattern) /\ GlobMatches(Tail(pattern), Tail(name))

BadPattern(pattern) == \E i \in 1..Len(pattern) : pattern[i] = "["

\* hasMeta of path/filepath: the pattern holds a byte that Match treats specially.
hasMeta(pattern) == \E i \in 1..Len(pattern) : pattern[i] \in {"*", "?", "["}

\* The names of a set in the order of Go's < on strings (os.ReadDir, sort.Strings).
RECURSIVE SortedNames(_)
SortedNames(S) ==
    IF S = {} THEN <<>>
    ELSE LET least == CHOOSE x \in S : \A y \in S \ {x} : StrLess(x, y)
         IN  <<least>> \o SortedNames(S \ {least})

Match(pattern, name) ==
    IF BadPattern(pattern) THEN [matched |-> FALSE, err |-> TRUE]
    ELSE [matched |-> GlobMatches(pattern, name), err |-> FALSE]

(***************************************************************************)
(* Archive members and the archive file.                                   *)
(*                                                                         *)
(* A member is [name, dir, size, content, meta]: size is the size field of *)
(* its header, content the content bytes present in the file (fewer than   *)
(* size when the file stops inside the member), meta stands for the mode,  *)
(* owner and time fields of the header.  The file is [members, closed,     *)
(* padded, torn]: closed says that the end-of-archive trailer follows the  *)
(* members, padded that the bytes after the content of the last member     *)
(* reach the next 512-byte block boundary (tar.Reader takes a file that    *)
(* ends in or before that padding for ended: io.EOF), torn that the file   *)
(* stops where a reader needs more bytes: inside the 512-byte block of a   *)
(* header or of the trailer or, with -z, before the end of the compressed  *)
(* stream.  A zero byte is written 0.                                      *)
(***************************************************************************)
Member(name, dir, size, content, meta) ==
    [name |-> name, dir |-> dir, size |-> size, content |-> content, meta |-> meta]

Complete(m) == Len(m.content) = m.size

EmptyFile == [members |-> <<>>, closed |-> FALSE, padded |-> TRUE, torn |-> FALSE]

\* The file a closed tar writer has produced: members, padding and trailer.
Archive(members) == [members |-> members, closed |-> TRUE, padded |-> TRUE, torn |-> FALSE]

NamesOf(members) == {members[i].name : i \in 1..Len(members)}

NameSeq(members) == [i \in 1..Len(members) |-> members[i].name]

\* tar.Reader over the file: the members Next delivers before it stops, and whether
\* it stops with an error (the file ends inside a member, or inside the block of
\* a header or the trailer: io.ErrUnexpectedEOF) rather than io.EOF.  A reader
\* that has met the trailer reads no further.
RECURSIVE ReadableCount(_, _)
ReadableCount(members, i) ==
    IF i > Len(members) THEN Len(members)
    ELSE IF Complete(members[i]) THEN ReadableCount(members, i + 1)
    ELSE i

Delivered(file) == SubSeq(file.members, 1, ReadableCount(file.members, 1))

ReadError(file) ==
    \/ \E i \in 1..Len(file.members) : ~Complete(file.members[i])
    \/ file.torn /\ ~file.closed

(***************************************************************************)
(* findDuplicateFile and addNumericSuffix.                                 *)
(***************************************************************************)
\* One turn of the loop of findDuplicateFile on a header name:
\* "dup" (return true), "next" (go on) or "panic" (slice bounds out of range).
ProbeHeader(headerName, filename) ==
    LET ext == Ext(filename)
        name == SubSeq(filename, 1, Len(filename) - Len(ext))
    IN  IF headerName = filename THEN "dup"
        ELSE IF HasPrefix(headerName, Append(name, "_"))
             THEN IF Len(headerName) - Len(ext) < Len(name) + 1 THEN "panic"
                  ELSE IF AtoiOk(SubSeq(headerName, Len(name) + 2, Len(headerName) - Len(ext)))
                       THEN "dup"
                       ELSE "next"
        ELSE "next"

\* The loop over the headers of the file, in file order.  A header is seen before
\* the read of the next one can fail.
RECURSIVE ProbeFrom(_, _, _)
ProbeFrom(file, filename, i) ==
    IF i > Len(file.members) THEN IF file.torn /\ ~file.closed THEN "error" ELSE "false"
    ELSE LET r == ProbeHeader(file.members[i].name, filename)
         IN  IF r = "dup" THEN "true"
             ELSE IF r = "panic" THEN "panic"
             ELSE IF ~Complete(file.members[i]) THEN "error"
             ELSE ProbeFrom(file, filename, i + 1)

\* "true", "false", "error" (false with a non-nil error) or "panic".  opened
\* says whether os.Open of the archive succeeds; it fails with every descriptor
\* in use (walkpath never closes the files it opens) or the archive gone.
findDuplicateFile(file, filename, opened) ==
    IF ~opened THEN "error" ELSE ProbeFrom(file, filename, 1)

\* The candidate of round count of addNumericSuffix.
Candidate(filename, count) ==
    LET ext == Ext(filename)
        name == SubSeq(filename, 1, Len(filename) - Len(ext))
    IN  IF count = 0 THEN filename ELSE name \o <<"_">> \o Itoa(count) \o ext

\* The loop of addNumericSuffix: [panic, name].  The error of the probe is
\* dropped, so "error" ends the loop like "false"; a panic of the probe ends the
\* program.  failing holds the rounds whose os.Open fails.
RECURSIVE SuffixFrom(_, _, _, _)
SuffixFrom(file, filename, count, failing) ==
    LET r == findDuplicateFile(file, Candidate(filename, count), count \notin failing)
    IN  IF r = "panic" THEN [panic |-> TRUE, name |-> filename]
        ELSE IF r = "true" THEN SuffixFrom(file, filename, count + 1, failing)
        ELSE [panic |-> FALSE, name |-> Candidate(filename, count)]

addNumericSuffix(file, filename, failing) == SuffixFrom(file, filename, 0, failing)

(***************************************************************************)
(* The names and files of the model.                                       *)
(***************************************************************************)
report_txt == <<"r", "e", "p", "o", "r", "t", ".", "t", "x", "t">>
report_1_txt == <<"r", "e", "p", "o", "r", "t", "_", "1", ".", "t", "x", "t">>
report_2_txt == <<"r", "e", "p", "o", "r", "t", "_", "2", ".", "t", "x", "t">>
report_1_log == <<"r", "e", "p", "o", "r", "t", "_", "1", ".", "l", "o", "g">>
report_1_underscore == <<"r", "e", "p", "o", "r", "t", "_", "1", "_">>
logs == <<"l", "o", "g", "s">>
logs_slash == <<"l", "o", "g", "s", "/">>
logs_x == <<"l", "o", "g", "s", "/", "x">>
logs_txt == <<"l", "o", "g", "s", ".", "t", "x", "t">>
a_b == <<"a", "/", "b">>
a_b_c == <<"a", "/", "b", "/", "c">>
a_c == <<"a", "/", "c">>
locked_txt == <<"l", "o", "c", "k", "e", "d", ".", "t", "x", "t">>
nothere == <<"n", "o", "t", "h", "e", "r", "e">>
star_txt == <<"*", ".", "t", "x", "t">>
open_bracket == <<"[">>

\* The archive the first operation finds holds names of one of these families.
Families == {
    {report_txt, report_1_txt, report_1_log},
    {report_txt, report_1_underscore},
    {logs, logs_slash, logs_x, logs_txt},
    {a_b, a_b_c, a_c} }

ArchivedDirs == {logs, logs_slash, a_b}

\* The i-th member of the first archive: a directory, or a file whose content
\* tells which occurrence of its name it is (k bytes of value k for the k-th).
FirstMember(names, i) ==
    LET k == Cardinality({j \in 1..i : names[j] = names[i]})
    IN  IF names[i] \in ArchivedDirs THEN Member(names[i], TRUE, 0, <<>>, "archived")
        ELSE Member(names[i], FALSE, k, [b \in 1..k |-> k], "archived")

\* The files of the working directory: [dir, size, content, readable].  size is
\* what Lstat reported when filepath.Walk reached the file, content what a later
\* read of the file gives: logs/x has grown by a byte in between.
FileSystem ==
    (report_txt :> [dir |-> FALSE, size |-> 1, content |-> <<9>>, readable |-> TRUE]) @@
    (logs :> [dir |-> TRUE, size |-> 0, content |-> <<>>, readable |-> TRUE]) @@
    (logs_slash :> [dir |-> TRUE, size |-> 0, content |-> <<>>, readable |-> TRUE]) @@
    (logs_x :> [dir |-> FALSE, size |-> 1, content |-> <<8, 8>>, readable |-> TRUE]) @@
    (locked_txt :> [dir |-> FALSE, size |-> 1, content |-> <<4>>, readable |-> FALSE])

\* The argument lists of append and update.
PathArgLists == {<<>>, <<report_txt>>, <<logs_slash>>, <<nothere>>,
                 <<report_txt, logs_slash>>, <<star_txt>>,
                 <<report_txt, locked_txt, logs_x>>,
                 <<report_txt, open_bracket>>, <<open_bracket, report_txt>>}

\* The argument lists of delete.
PatternLists == {<<>>, <<logs_slash>>, <<logs>>, <<star_txt>>, <<open_bracket>>,
                 <<report_1_txt, a_b>>}

\* The argument lists of a command line with -d and -u or -a.
SharedArgLists == {<<report_txt>>, <<logs_slash>>}

\* The answers to the prompt of walkpath.
Responses == {<<"y">>, <<"Y">>, <<"n">>, <<>>}

\* The rounds of addNumericSuffix whose os.Open of the archive fails: none, the
\* first or the second.
OpenFailures == {{}, {0}, {1}}

\* filepath.Glob: [err, files].  A malformed pattern is ErrBadPattern; a pattern
\* without metacharacters gives itself if Lstat finds it; any other pattern gives
\* the paths of the working directory it matches, in lexical order.
Glob(pattern) ==
    IF BadPattern(pattern) THEN [err |-> TRUE, files |-> <<>>]
    ELSE IF ~hasMeta(pattern)
         THEN [err |-> FALSE,
               files |-> IF pattern \in DOMAIN FileSystem THEN <<pattern>> ELSE <<>>]
    ELSE [err |-> FALSE,
          files |-> SortedNames({path \in DOMAIN FileSystem :
                                    /\ ~HasSuffix(path, <<PathSeparator>>)
                                    /\ GlobMatches(pattern, path)})]

\* filepath.Walk: the root as given, then the files of a directory in lexical order.
Walk(root) ==
    IF FileSystem[root].dir THEN <<root, TrimSuffix(root, <<"/">>) \o <<"/", "x">>>> ELSE <<root>>

RECURSIVE WalkFiles(_)
WalkFiles(files) == IF files = <<>> THEN <<>> ELSE Walk(Head(files)) \o WalkFiles(Tail(files))

\* The loop "for each argument: Glob, then Walk each match": [err, paths], the
\* paths handed to the walk function in order.  The first argument Glob rejects
\* ends the loop (err): the paths before it have been walked, nothing after it is.
RECURSIVE WalkAll(_)
WalkAll(arglist) ==
    IF arglist = <<>> THEN [err |-> FALSE, paths |-> <<>>]
    ELSE LET g == Glob(Head(arglist))
             rest == WalkAll(Tail(arglist))
         IN  IF g.err THEN [err |-> TRUE, paths |-> <<>>]
             ELSE [err |-> rest.err, paths |-> WalkFiles(g.files) \o rest.paths]

\* The same loop as main runs it, call by call: the paths of the walkpath calls,
\* ended by the argument Glob rejects when there is one.
RECURSIVE WalkPlan(_)
WalkPlan(arglist) ==
    IF arglist = <<>> THEN <<>>
    ELSE LET g == Glob(Head(arglist))
         IN  IF g.err THEN <<Head(arglist)>>
             ELSE WalkFiles(g.files) \o WalkPlan(Tail(arglist))

\* filepath.ToSlash(filepath.Rel(".", path)) on the paths of the model, whose only
\* unclean part can be a trailing separator.
RelSlash(path) == TrimSuffix(path, <<"/">>)

\* tar.FileInfoHeader of a file of the working directory, under the given name.
FileHeader(path, name) ==
    LET f == FileSystem[path]
    IN  Member(name, f.dir, IF f.dir THEN 0 ELSE f.size, <<>>, "fs")

(***************************************************************************)
(* The map of entries and the rebuild loop shared by updateTarball,        *)
(* deleteFromTarball and reorganizeTarball.                                *)
(***************************************************************************)
\* A map name -> entry is the sequence of its slots in the order the keys were
\* first stored; an entry carries its key as its name.
EmptyMap == <<>>

HasKey(m, key) == \E i \in 1..Len(m) : m[i].name = key

\* A plausible slip: the entries are collected in a list, one per header read.
MapPutAppend(m, key, entry) == Append(m, entry)

\* A plausible slip: an entry already in the map is kept, the new one dropped.
MapPutKeepFirst(m, key, entry) == IF HasKey(m, key) THEN m ELSE Append(m, entry)

\* m[key] = entry
MapPut(m, key, entry) ==
    IF HasKey(m, key) THEN [i \in 1..Len(m) |-> IF m[i].name = key THEN entry ELSE m[i]]
    ELSE Append(m, entry)

\* m[key]
MapGet(m, key) == m[CHOOSE i \in 1..Len(m) : m[i].name = key]

\* The entry the decode loops store for a header: the content is read for
\* everything but a directory.
Decoded(m) == [m EXCEPT !.content = IF m.dir THEN <<>> ELSE m.content]

\* A plausible slip: a header whose name is already in the map is passed over.
RECURSIVE DecodeAllSkipsKnown(_, _)
DecodeAllSkipsKnown(members, acc) ==
    IF members = <<>> THEN acc
    ELSE DecodeAllSkipsKnown(Tail(members),
                             IF HasKey(acc, Head(members).name) THEN acc
                             ELSE MapPut(acc, Head(members).name, Decoded(Head(members))))

\* The decode loop of updateTarball and reorganizeTarball over the members read.
RECURSIVE DecodeAll(_, _)
DecodeAll(members, acc) ==
    IF members = <<>> THEN acc
    ELSE DecodeAll(Tail(members), MapPut(acc, Head(members).name, Decoded(Head(members))))

\* A plausible slip: the flag is set for every pattern, matching or not.
shouldDeleteAny(name, patterns) == patterns # <<>>

\* A plausible slip: the prefix test without the separator, so that "logs/"
\* also removes "logs" and "logs.txt".
shouldDeleteBarePrefix(name, patterns) ==
    \E i \in 1..Len(patterns) :
        \/ Match(patterns[i], name).matched
        \/ HasPrefix(name, TrimSuffix(patterns[i], <<"/">>))

\* The inner loop of deleteFromTarball: the error of filepath.Match is dropped.
shouldDelete(name, patterns) ==
    \E i \in 1..Len(patterns) :
        \/ Match(patterns[i], name).matched
        \/ HasPrefix(name, TrimSuffix(patterns[i], <<"/">>) \o <<"/">>)

\* The decode loop of deleteFromTarball.
RECURSIVE DecodeKept(_, _, _)
DecodeKept(members, patterns, acc) ==
    IF members = <<>> THEN acc
    ELSE IF shouldDelete(Head(members).name, patterns)
         THEN DecodeKept(Tail(members), patterns, acc)
         ELSE DecodeKept(Tail(members), patterns,
                         MapPut(acc, Head(members).name, Decoded(Head(members))))

\* The walk of updateTarball over the paths: [err, map]; err when a file cannot
\* be opened.
RECURSIVE UpdateAll(_, _)
UpdateAll(paths, acc) ==
    IF paths = <<>> THEN [err |-> FALSE, map |-> acc]
    ELSE LET path == Head(paths)
             f == FileSystem[path]
             header == FileHeader(path, RelSlash(path))
         IN  IF ~f.dir /\ ~f.readable THEN [err |-> TRUE, map |-> acc]
             ELSE UpdateAll(Tail(paths),
                            MapPut(acc, header.name,
                                   [header EXCEPT !.content = IF f.dir THEN <<>> ELSE f.content]))

\* A plausible slip: the header is written with the size it came with.
WrittenSizeAsRead(entry) == IF entry.dir THEN [entry EXCEPT !.content = <<>>] ELSE entry

\* What the write loop puts into the buffer for one entry: the size of a
\* non-directory is set to the content length, a directory is written header-only.
Written(entry) ==
    IF entry.dir THEN [entry EXCEPT !.content = <<>>]
    ELSE [entry EXCEPT !.size = Len(entry.content)]

\* The write loop over the sorted names.
Rendered(m, names) == [i \in 1..Len(names) |-> Written(MapGet(m, names[i]))]

\* The map after the write loop: an entry holds its header by pointer
\* (FileEntry.Header is a *tar.Header), so the size the loop sets on the header
\* of a non-directory stays in the map.
Resized(m) ==
    [i \in 1..Len(m) |-> IF m[i].dir THEN m[i] ELSE [m[i] EXCEPT !.size = Len(m[i].content)]]

NoBuffer == [members |-> <<>>, twClosed |-> FALSE, cwClosed |-> FALSE]

\* The record of a walkpath call: the path, the probe's answer and whether its
\* os.Open succeeded, the prompts shown, the answer given, the name chosen, whether
\* the header was written, and the file, the open entry's missing bytes and the
\* paths left when the call began.
NoWalk == [path |-> <<>>, probe |-> "none", opened |-> TRUE, asked |-> 0, response |-> <<>>,
           accepted |-> FALSE, name |-> <<>>, wrote |-> FALSE, file |-> EmptyFile, rem |-> 0,
           left |-> 0]

Rebuilders == {"update", "delete", "reorganize"}

(***************************************************************************)
(* Initial states: an archive of up to MaxMembers members in any order     *)
(* (names may repeat, as after "create" with a repeated argument), closed  *)
(* by its trailer, and the flag -z on or off.                              *)
(***************************************************************************)
FirstArchives ==
    {Archive([i \in 1..Len(names) |-> FirstMember(names, i)]) :
        names \in UNION {[1..n -> F] : n \in 0..MaxMembers, F \in Families}}

\* History: the operations started, whether the file is as the last successful
\* reorganizeTarball wrote it (now, and when the running function began), what the
\* caller was told, and whether the operation has reached the commit of an
\* archive it has rebuilt in memory (the truncate of updateTarball,
\* deleteFromTarball or reorganizeTarball, the os.WriteFile of
\* appendToCompressedTarball).
NoInvocation == [next |-> "none", order |-> "none", args |-> <<>>]

\* The codec adapter at rest (see the codec adapter below).
NoStream == [format |-> "nothing", data |-> <<>>]

NoWrapper == [format |-> "nothing", option |-> "nothing", err |-> FALSE]

NoCodec == [flagA |-> "", file |-> "", z |-> FALSE, level |-> 4, payload |-> <<>>,
            args |-> <<>>, phase |-> "off", algorithm |-> "", compress |-> FALSE,
            writer |-> NoWrapper, tw |-> "none", cw |-> "none", through |-> <<>>,
            sink |-> NoStream, reader |-> NoWrapper, out |-> <<>>, err |-> FALSE]

NoHist == [nops |-> 0, reorganized |-> FALSE, inputReorganized |-> FALSE, reported |-> "none",
           committing |-> FALSE]

Init ==
    /\ disk \in FirstArchives
    /\ compress \in BOOLEAN
    /\ op = "idle"
    /\ fn = "none"
    /\ pc = "idle"
    /\ todo = <<>>
    /\ fileData = EmptyMap
    /\ buffer = NoBuffer
    /\ twRem = 0
    /\ pre = disk
    /\ fnPre = disk
    /\ result = "none"
    /\ last = NoWalk
    /\ hist = NoHist
    /\ invocation = NoInvocation
    /\ codec = NoCodec

(***************************************************************************)
(* Starting an operation (main).  Operations follow one another on the     *)
(* archive a successful operation left.                                    *)
(***************************************************************************)
CanStart ==
    /\ pc \in {"idle", "done"}
    /\ invocation.next = "none"
    /\ result \in {"none", "ok"}
    /\ hist.nops < MaxOps
    /\ Len(disk.members) <= MaxMembers

Begin(operation, function, position, arguments, command) ==
    /\ op' = operation
    /\ fn' = function
    /\ pc' = position
    /\ todo' = arguments
    /\ fileData' = EmptyMap
    /\ buffer' = NoBuffer
    /\ twRem' = 0
    /\ pre' = disk
    /\ fnPre' = disk
    /\ result' = "none"
    /\ last' = NoWalk
    /\ hist' = [hist EXCEPT !.nops = hist.nops + 1, !.inputReorganized = hist.reorganized,
                            !.reported = "none", !.committing = FALSE]
    /\ invocation' = command
    /\ UNCHANGED <<disk, compress, codec>>

\* -d alone, or -d together with -u or -a: the flags keep no trace of the order
\* in which they were given, and the arguments are shared by both mutations.
StartDelete ==
    /\ CanStart
    /\ \/ \E patterns \in PatternLists :
            Begin("delete", "delete", "open", patterns, NoInvocation)
       \/ /\ hist.nops + 2 <= MaxOps
          /\ \E args \in SharedArgLists, second \in {"update", "append"},
                     order \in {"delete-add", "add-delete"} :
                Begin("delete", "delete", "open", args,
                      [next |-> second, order |-> order, args |-> args])

StartUpdate ==
    CanStart /\ \E paths \in PathArgLists : Begin("update", "update", "open", paths, NoInvocation)

StartReorganize == CanStart /\ Begin("reorganize", "reorganize", "open", <<>>, NoInvocation)

\* main gives up before the operation has touched anything: the program ends,
\* and the caller is told what the exit status says.
Refuse(operation, arguments, command, told) ==
    /\ op' = operation
    /\ fn' = "none"
    /\ pc' = "done"
    /\ todo' = arguments
    /\ fileData' = EmptyMap
    /\ buffer' = NoBuffer
    /\ twRem' = 0
    /\ pre' = disk
    /\ fnPre' = disk
    /\ result' = "error"
    /\ last' = NoWalk
    /\ hist' = [hist EXCEPT !.nops = hist.nops + 1, !.inputReorganized = hist.reorganized,
                            !.reported = told, !.committing = FALSE]
    /\ invocation' = command
    /\ UNCHANGED <<disk, compress, codec>>

\* The append branch of main up to its loop.  os.Stat fails: "not found" is
\* printed and main ends with status 0.  os.OpenFile fails, or without -z the
\* Seek to 1024 bytes before the end: log.Fatalln.  Otherwise
\* appendToCompressedTarball is called, or the tar writer is put on the file.
AppendBegin(paths, command) ==
    \E step \in {"stat", "open", "seek", "loop"} :
        IF step = "stat" THEN Refuse("append", paths, command, "ok")
        ELSE IF step = "open" THEN Refuse("append", paths, command, "error")
        ELSE IF compress
             THEN step = "loop" /\ Begin("append", "appendc", "open", paths, command)
        ELSE IF step = "seek" THEN Refuse("append", paths, command, "error")
        ELSE Begin("append", "walk", "walk", WalkPlan(paths), command)

StartAppend == CanStart /\ \E paths \in PathArgLists : AppendBegin(paths, NoInvocation)

\* main after deleteFromTarball has returned nil: the update or the append of
\* the same command line, on the same arguments.
ContinueMain ==
    /\ pc = "done"
    /\ result = "ok"
    /\ op = "delete"
    /\ invocation.next # "none"
    /\ LET command == [invocation EXCEPT !.next = "none"]
       IN  IF invocation.next = "update" THEN Begin("update", "update", "open", todo, command)
           ELSE AppendBegin(todo, command)

(***************************************************************************)
(* Returning from the function an operation is in.                         *)
(***************************************************************************)
\* The operation ends with the given outcome; what the caller is told differs
\* when reorganizeTarball fails at the end of an append: the error is printed only.
Return(outcome) ==
    /\ pc' = "done"
    /\ result' = outcome
    /\ fileData' = EmptyMap
    /\ buffer' = NoBuffer
    /\ twRem' = 0
    /\ UNCHANGED <<compress, invocation, codec, op, fn, todo, pre, fnPre>>

Told(outcome) == IF op = "append" /\ fn = "reorganize" THEN "ok" ELSE outcome

Fail ==
    /\ Return("error")
    /\ hist' = [hist EXCEPT !.reported = Told("error"),
                            !.committing = hist.committing \/ pc = "truncate"]
    /\ UNCHANGED <<disk, last>>

(***************************************************************************)
(* updateTarball, deleteFromTarball, reorganizeTarball: decode, plan,      *)
(* render into the buffer, close the writers, then truncate, seek, write   *)
(* (and chmod).  Every system call can fail.                               *)
(***************************************************************************)
Step(position) ==
    /\ pc' = position
    /\ UNCHANGED <<compress, invocation, codec, op, fn, todo, twRem, pre, fnPre, result, last>>

\* os.OpenFile, os.Stat and wrapCompressionReader.
Open ==
    /\ fn \in Rebuilders \cup {"appendc"}
    /\ pc = "open"
    /\ \E ok \in BOOLEAN :
        IF ok THEN Step(IF fn = "appendc" THEN "copy" ELSE "decode")
                   /\ UNCHANGED <<disk, fileData, buffer, hist>>
        ELSE Fail

DecodeReorganize ==
    /\ fn = "reorganize"
    /\ pc = "decode"
    /\ IF ReadError(disk) THEN Fail
       ELSE /\ fileData' = DecodeAll(disk.members, EmptyMap)
            /\ Step("render")
            /\ UNCHANGED <<disk, buffer, hist>>

DecodeUpdate ==
    /\ fn = "update"
    /\ pc = "decode"
    /\ IF ReadError(disk) THEN Fail
       ELSE /\ fileData' = DecodeAll(disk.members, EmptyMap)
            /\ Step("plan")
            /\ UNCHANGED <<disk, buffer, hist>>

DecodeDelete ==
    /\ fn = "delete"
    /\ pc = "decode"
    /\ IF ReadError(disk) THEN Fail
       ELSE /\ fileData' = DecodeKept(disk.members, todo, EmptyMap)
            /\ Step("render")
            /\ UNCHANGED <<disk, buffer, hist>>

\* The loop of updateTarball over its arguments: an argument filepath.Glob
\* rejects, or a file that cannot be opened, ends it with an error.
UpdatePlan ==
    /\ fn = "update"
    /\ pc = "plan"
    /\ LET w == WalkAll(todo)
           r == UpdateAll(w.paths, fileData)
       IN  IF w.err \/ r.err THEN Fail
           ELSE /\ fileData' = r.map
                /\ Step("render")
                /\ UNCHANGED <<disk, buffer, hist>>

\* wrapCompressionWriter, tar.NewWriter, sortedKeys and the write loop.
Render ==
    /\ fn \in Rebuilders
    /\ pc = "render"
    /\ \/ Fail
       \/ \E order \in RangeOrders(NameSeq(fileData)) :
            /\ buffer' = [members |-> Rendered(fileData, sortedKeys(order)),
                          twClosed |-> FALSE, cwClosed |-> FALSE]
            /\ fileData' = Resized(fileData)
            /\ Step("closeTw")
            /\ UNCHANGED <<disk, hist>>

\* A plausible slip: the error of tw.Close() is dropped and the commit goes on.
CloseTwErrorDropped ==
    /\ fn \in Rebuilders \cup {"appendc"}
    /\ pc = "closeTw"
    /\ \E ok \in BOOLEAN :
        /\ buffer' = [buffer EXCEPT !.twClosed = ok]
        /\ Step(IF compress THEN "closeCw" ELSE "truncate")
        /\ UNCHANGED <<disk, fileData, hist>>

CloseTw ==
    /\ fn \in Rebuilders \cup {"appendc"}
    /\ pc = "closeTw"
    /\ \E ok \in BOOLEAN :
        IF ok THEN /\ buffer' = [buffer EXCEPT !.twClosed = TRUE]
                   /\ Step(IF compress THEN "closeCw" ELSE "truncate")
                   /\ UNCHANGED <<disk, fileData, hist>>
        ELSE Fail

CloseCw ==
    /\ fn \in Rebuilders \cup {"appendc"}
    /\ pc = "closeCw"
    /\ \E ok \in BOOLEAN :
        IF ok THEN /\ buffer' = [buffer EXCEPT !.cwClosed = TRUE]
                   /\ Step(IF fn = "appendc" THEN "writeFile" ELSE "truncate")
                   /\ UNCHANGED <<disk, fileData, hist>>
        ELSE Fail

Truncate ==
    /\ fn \in Rebuilders
    /\ pc = "truncate"
    /\ \E ok \in BOOLEAN :
        IF ok THEN /\ disk' = EmptyFile
                   /\ hist' = [hist EXCEPT !.reorganized = FALSE, !.committing = TRUE]
                   /\ Step("seek")
                   /\ UNCHANGED <<fileData, buffer>>
        ELSE Fail

Seek ==
    /\ fn \in Rebuilders
    /\ pc = "seek"
    /\ \E ok \in BOOLEAN :
        IF ok THEN Step("write") /\ UNCHANGED <<disk, fileData, buffer, hist>>
        ELSE Fail

\* The file a writer leaves that stops inside member k, after c bytes of its
\* content.
CutAt(members, k, c) ==
    [members |-> [i \in 1..k |-> IF i = k THEN [members[i] EXCEPT !.content = SubSeq(@, 1, c)]
                                 ELSE members[i]],
     closed |-> FALSE,
     padded |-> FALSE,
     torn |-> FALSE]

\* The places in the tar stream of the members where a prefix of it can end
\* short of a block of the trailer: on the block boundary after member k (k = 0:
\* before the first), or after c bytes of the content of member k, c up to the
\* whole content, where the prefix ends with the content or inside the padding
\* after it (a member without content has no padding).
Cuts(members) ==
    {[members |-> SubSeq(members, 1, k), closed |-> FALSE, padded |-> TRUE, torn |-> FALSE] :
        k \in 0..Len(members)}
    \cup UNION {{CutAt(members, k, c) : c \in {n \in 0..Len(members[k].content) :
                                                   Len(members[k].content) > 0}} :
                    k \in 1..Len(members)}

Torn(file) == [file EXCEPT !.torn = TRUE]

\* What a write of the archive made of the members leaves in an empty file when
\* it fails: the bytes written before the error, any number of them short of
\* all.  Without compression they end at one of the places of Cuts (after the
\* last member: with nothing or with one zero block of the trailer, which reads
\* as the end), or inside the block of a header or of the trailer.  With
\* compression they are a prefix of the compressed stream: nothing, or a stream
\* that stops before its end and holds the tar stream up to one of the places
\* of Cuts or up to the trailer.
Prefixes(members, compressed) ==
    IF compressed
    THEN {EmptyFile} \cup {Torn(f) : f \in Cuts(members)} \cup {Torn(Archive(members))}
    ELSE Cuts(members)
         \cup {Torn([members |-> SubSeq(members, 1, k), closed |-> FALSE, padded |-> TRUE,
                      torn |-> FALSE]) : k \in 0..Len(members)}

\* buffer.WriteTo(file): one Write of the whole buffer, which on an error has
\* written part of it; deleteFromTarball returns after it.
WriteBuffer ==
    /\ fn \in Rebuilders
    /\ pc = "write"
    /\ \/ \E left \in Prefixes(buffer.members, compress) :
            /\ disk' = left
            /\ Return("error")
            /\ hist' = [hist EXCEPT !.reported = Told("error")]
            /\ UNCHANGED last
       \/ /\ disk' = Archive(buffer.members)
          /\ IF fn = "delete"
             THEN /\ Return("ok")
                  /\ hist' = [hist EXCEPT !.reorganized = FALSE, !.reported = "ok"]
                  /\ UNCHANGED last
             ELSE /\ Step("chmod")
                  /\ hist' = [hist EXCEPT !.reorganized = (fn = "reorganize")]
                  /\ UNCHANGED <<fileData, buffer>>

Chmod ==
    /\ fn \in Rebuilders
    /\ pc = "chmod"
    /\ \E ok \in BOOLEAN :
        IF ok THEN /\ Return("ok")
                   /\ hist' = [hist EXCEPT !.reported = "ok"]
                   /\ UNCHANGED <<disk, last>>
        ELSE Fail

(***************************************************************************)
(* Append without -z (main and walkpath): the tar writer sits on the file  *)
(* itself, 1024 bytes before its end, so every header and every content    *)
(* byte goes straight to the archive file.                                 *)
(***************************************************************************)
Min(a, b) == IF a < b THEN a ELSE b

\* The bytes io.Copy gets into the entry open in the tar writer.
Copied(path, room) ==
    LET f == FileSystem[path]
    IN  IF f.dir \/ ~f.readable THEN <<>> ELSE SubSeq(f.content, 1, Min(room, Len(f.content)))

Zeros(n) == [i \in 1..n |-> 0]

\* tw.Write on the file: the bytes go into the content of the last member, at
\* the offset the tar writer has reached in it.
WithContent(file, offset, bytes) ==
    IF bytes = <<>> THEN file
    ELSE [file EXCEPT !.members[Len(file.members)].content =
              SubSeq(@, 1, offset) \o bytes \o SubSeq(@, offset + Len(bytes) + 1, Len(@))]

\* One call of walkpath by filepath.Walk.  The tar writer starts on the first
\* of the two zero blocks of the old trailer: the first header it writes
\* replaces that block, and the second block stays behind it, where a reader
\* takes it for the content and the padding of that header's entry.  Each probe
\* opens the archive again, and each os.Open can fail.  A directory is not
\* probed; an answer is read only when the probe reports a duplicate, and
\* addNumericSuffix runs only when the answer accepts.
Walkpath ==
    /\ fn = "walk"
    /\ pc = "walk"
    /\ todo # <<>>
    /\ ~BadPattern(Head(todo))
    /\ \E opened \in IF FileSystem[Head(todo)].dir THEN {TRUE} ELSE BOOLEAN :
       \E probe \in {IF FileSystem[Head(todo)].dir THEN "none"
                      ELSE findDuplicateFile(disk, Head(todo), opened)} :
       \E response \in IF probe = "true" THEN Responses ELSE {<<>>} :
       \E failing \in IF probe = "true" /\ ToLower(response) = <<"y">> THEN OpenFailures
                       ELSE {{}} :
        LET path == Head(todo)
            f == FileSystem[path]
        IN  /\ LET asked == probe = "true"
                   accepted == asked /\ ToLower(response) = <<"y">>
                   renamed == IF accepted THEN addNumericSuffix(disk, path, failing)
                              ELSE [panic |-> FALSE, name |-> path]
                   name == IF f.dir THEN TrimSuffix(path, <<"/">>) ELSE renamed.name
                   header == FileHeader(path, name)
                   first == Len(disk.members) = Len(pre.members)
                   log == [path |-> path, probe |-> probe, opened |-> opened,
                           asked |-> IF asked THEN 1 ELSE 0,
                           response |-> response, accepted |-> accepted, name |-> name,
                           wrote |-> FALSE, file |-> disk, rem |-> twRem, left |-> Len(todo)]
               IN  IF probe = "panic" \/ renamed.panic
                   THEN /\ Return("panic")
                        /\ last' = log
                        /\ hist' = [hist EXCEPT !.reported = "panic"]
                        /\ UNCHANGED disk
                   ELSE IF asked /\ ~accepted
                   THEN /\ todo' = Tail(todo)
                        /\ last' = log
                        /\ UNCHANGED <<disk, compress, invocation, codec, op, fn, pc, fileData, buffer, twRem,
                                       pre, fnPre, result, hist>>
                   ELSE IF twRem > 0
                   THEN \* tw.WriteHeader fails in Flush; io.Copy fills the entry left open
                        LET open == disk.members[Len(disk.members)]
                        IN  /\ disk' = WithContent(disk, open.size - twRem, Copied(path, twRem))
                            /\ twRem' = twRem - Len(Copied(path, twRem))
                            /\ todo' = Tail(todo)
                            /\ last' = log
                            /\ hist' = [hist EXCEPT !.reorganized = FALSE]
                            /\ UNCHANGED <<compress, invocation, codec, op, fn, pc, fileData, buffer, pre, fnPre, result>>
                   ELSE \* Flush pads the entry before, then the header and the content
                        LET copied == Copied(path, header.size)
                            seen == IF first THEN copied \o Zeros(header.size - Len(copied))
                                    ELSE copied
                        IN  /\ disk' = [members |-> Append(disk.members, [header EXCEPT !.content = seen]),
                                        closed |-> FALSE,
                                        padded |-> first \/ header.size = 0,
                                        torn |-> FALSE]
                            /\ twRem' = header.size - Len(copied)
                            /\ todo' = Tail(todo)
                            /\ last' = [log EXCEPT !.wrote = TRUE]
                            /\ hist' = [hist EXCEPT !.reorganized = FALSE]
                            /\ UNCHANGED <<compress, invocation, codec, op, fn, pc, fileData, buffer, pre, fnPre, result>>

\* filepath.Glob rejects the argument the loop of main has come to: the error
\* is printed and main returns, status 0.  tw.Close() and reorganizeTarball are
\* not reached: what the walk has written stays, without padding or trailer.
GlobFails ==
    /\ fn = "walk"
    /\ pc = "walk"
    /\ todo # <<>>
    /\ BadPattern(Head(todo))
    /\ Return("error")
    /\ hist' = [hist EXCEPT !.reported = "ok"]
    /\ UNCHANGED <<disk, last>>

\* tw.Close() in main, its error dropped, then the call of reorganizeTarball.
\* Close writes the padding and the trailer unless the open entry misses bytes.
\* The walk is over: the record of its last walkpath call is dropped.
AppendClose ==
    /\ fn = "walk"
    /\ pc = "walk"
    /\ todo = <<>>
    /\ disk' = IF twRem > 0 THEN disk ELSE Archive(disk.members)
    /\ fn' = "reorganize"
    /\ pc' = "open"
    /\ fnPre' = disk'
    /\ twRem' = 0
    /\ last' = NoWalk
    /\ hist' = [hist EXCEPT !.inputReorganized = hist.reorganized]
    /\ UNCHANGED <<compress, invocation, codec, op, todo, fileData, buffer, pre, result>>

(***************************************************************************)
(* Append with -z: appendToCompressedTarball.                              *)
(***************************************************************************)
\* The walk of appendToCompressedTarball: [err, members].  err when a file cannot
\* be opened, or when its bytes are not as many as its header says: io.Copy
\* fails on the bytes beyond the size, and the next tw.WriteHeader or tw.Close
\* fails on an entry that misses bytes.
RECURSIVE AppendAll(_, _)
AppendAll(paths, acc) ==
    IF paths = <<>> THEN [err |-> FALSE, members |-> acc]
    ELSE LET path == Head(paths)
             f == FileSystem[path]
             header == FileHeader(path, RelSlash(path))
         IN  IF ~f.dir /\ (~f.readable \/ Len(f.content) # header.size)
             THEN [err |-> TRUE, members |-> Append(acc, header)]
             ELSE AppendAll(Tail(paths),
                            Append(acc, [header EXCEPT !.content = IF f.dir THEN <<>> ELSE f.content]))

\* The copy loop over the old members, then the loop over the arguments, which
\* an argument filepath.Glob rejects ends with an error.
CopyAndAppend ==
    /\ fn = "appendc"
    /\ pc = "copy"
    /\ LET w == WalkAll(todo)
           r == AppendAll(w.paths, disk.members)
       IN  IF ReadError(disk) \/ w.err \/ r.err THEN Fail
           ELSE /\ buffer' = [members |-> r.members, twClosed |-> FALSE, cwClosed |-> FALSE]
                /\ Step("closeTw")
                /\ UNCHANGED <<disk, fileData, hist>>

\* os.WriteFile, then the call of reorganizeTarball.  os.WriteFile opens the
\* file with O_TRUNC, writes and closes, and returns the first error: the file
\* is then as it was (the open failed), holds the bytes written before the
\* error (the write failed), or holds the new archive (the close failed).  It
\* is the commit of the archive appendToCompressedTarball has rebuilt.
WriteFile ==
    /\ fn = "appendc"
    /\ pc = "writeFile"
    /\ \/ /\ Fail
       \/ \E left \in Prefixes(buffer.members, compress) \cup {Archive(buffer.members)} :
            /\ Return("error")
            /\ disk' = left
            /\ hist' = [hist EXCEPT !.reorganized = FALSE, !.reported = "error",
                                    !.committing = TRUE]
            /\ UNCHANGED last
       \/ /\ disk' = Archive(buffer.members)
          /\ fn' = "reorganize"
          /\ pc' = "open"
          /\ fnPre' = disk'
          /\ buffer' = NoBuffer
          /\ hist' = [hist EXCEPT !.reorganized = FALSE, !.inputReorganized = FALSE,
                                  !.committing = TRUE]
          /\ UNCHANGED <<compress, invocation, codec, op, todo, fileData, twRem, pre, result, last>>

Next ==
    \/ StartDelete
    \/ StartUpdate
    \/ StartReorganize
    \/ StartAppend
    \/ ContinueMain
    \/ Open
    \/ DecodeReorganize
    \/ DecodeUpdate
    \/ DecodeDelete
    \/ UpdatePlan
    \/ Render
    \/ CloseTw
    \/ CloseCw
    \/ Truncate
    \/ Seek
    \/ WriteBuffer
    \/ Chmod
    \/ Walkpath
    \/ GlobFails
    \/ AppendClose
    \/ CopyAndAppend
    \/ WriteFile

Spec == Init /\ [][Next]_vars

(***************************************************************************)
(* The codec adapter: the choice of the algorithm in main, and             *)
(* wrapCompressionWriter and wrapCompressionReader.                        *)
(*                                                                         *)
(* The codecs themselves are libraries.  A stream is [format, data]: the   *)
(* bytes a writer of that format makes of the data written through it      *)
(* until its Close; "raw" is the data itself.  A reader gives the data     *)
(* back when the stream has its format and fails on any other stream.      *)
(***************************************************************************)
Algorithms == {"", "none", "gzip", "zlib", "bzip2", "s2", "zstd", "lzma", "lz4", "xz", "brotli"}

\* The archive file name, by its lower-cased extension; "" is -f not given,
\* "-" is stdin/stdout.
FileNames == {"", "-", ".tar", ".gz", ".tgz", ".zz", ".zlib", ".br", ".bz2", ".xz", ".lzma", ".lz4",
              ".zst", ".zstd", ".s2"}

Levels == {-3, 0, 1, 3, 4, 5, 7, 9, 10}

Payloads == {<<>>, <<7>>, <<7, 0, 7>>}

\* The arguments of a create: a file, and a pattern filepath.Glob rejects.
CreateArgLists == {<<report_txt>>, <<report_txt, <<"[">>>>, <<<<"[">>>>}

Raw(data) == [format |-> "raw", data |-> data]

\* The switch on the extension in main.
ExtAlgorithm(ext) ==
    CASE ext \in {".gz", ".tgz"} -> "gzip"
      [] ext \in {".zz", ".zlib"} -> "zlib"
      [] ext = ".br" -> "brotli"
      [] ext = ".bz2" -> "bzip2"
      [] ext = ".xz" -> "xz"
      [] ext = ".lzma" -> "lzma"
      [] ext = ".lz4" -> "lz4"
      [] ext \in {".zst", ".zstd"} -> "zstd"
      [] ext = ".s2" -> "s2"
      [] OTHER -> "none"

\* The constants lz4.Level1 .. lz4.Level9.
Lz4Levels == <<"Level1", "Level2", "Level3", "Level4", "Level5", "Level6", "Level7", "Level8",
               "Level9">>

\* wrapCompressionWriter: the format of the writer, the option it was made with,
\* and whether the constructor returned an error.
wrapCompressionWriter(algorithm, level) ==
    CASE algorithm \in {"gzip", "zlib"} ->
            [format |-> algorithm, option |-> "level", err |-> level < -2 \/ level > 9]
      [] algorithm = "bzip2" ->
            [format |-> "bzip2", option |-> "level", err |-> level < 0 \/ level > 9]
      [] algorithm = "s2" ->
            [format |-> "s2",
             option |-> IF level <= 3 THEN "better" ELSE IF level >= 7 THEN "best" ELSE "default",
             err |-> FALSE]
      [] algorithm = "zstd" ->
            [format |-> "zstd", option |-> "level", err |-> level < 1 \/ level > 4]
      [] algorithm = "lzma" -> [format |-> "lzma", option |-> "level", err |-> FALSE]
      [] algorithm = "lz4" ->
            [format |-> "lz4",
             option |-> IF level \in 1..9 THEN Lz4Levels[level] ELSE "Fast",
             err |-> FALSE]
      [] algorithm = "xz" -> [format |-> "xz", option |-> "none", err |-> FALSE]
      [] OTHER -> [format |-> "brotli", option |-> "level", err |-> FALSE]

\* A plausible slip: two cases of the switch of the reader give each other's reader.
wrapCompressionReaderSwapped(algorithm) ==
    IF algorithm \in {"gzip", "zlib", "brotli", "bzip2", "s2", "zstd", "lz4"}
    THEN [format |-> algorithm, option |-> "none", err |-> FALSE]
    ELSE IF algorithm = "xz" THEN [format |-> "lzma", option |-> "none", err |-> FALSE]
    ELSE IF algorithm = "lzma" THEN [format |-> "xz", option |-> "none", err |-> FALSE]
    ELSE [format |-> "nothing", option |-> "none", err |-> TRUE]

\* wrapCompressionReader: the format of the reader; an error for every
\* algorithm the switch does not name.
wrapCompressionReader(algorithm) ==
    IF algorithm \in {"gzip", "zlib", "brotli", "bzip2", "xz", "lzma", "lz4", "zstd", "s2"}
    THEN [format |-> algorithm, option |-> "none", err |-> FALSE]
    ELSE [format |-> "nothing", option |-> "none", err |-> TRUE]

\* What a writer of the format has put into the sink once it is closed.
Encode(format, data) == [format |-> format, data |-> data]

\* What is read through a reader of the format: [data, err].
Decode(format, stream) ==
    IF stream.format = format THEN [data |-> stream.data, err |-> FALSE]
    ELSE [data |-> <<>>, err |-> TRUE]

programVars == <<disk, compress, op, fn, pc, todo, fileData, buffer, twRem, pre, fnPre, result,
                 last, hist, invocation>>

\* A command line (-A, -f, -z, -L, the arguments) and the bytes tar.Writer makes
\* of the files the arguments name.
CodecInit ==
    /\ disk = EmptyFile
    /\ compress = FALSE
    /\ op = "idle"
    /\ fn = "none"
    /\ pc = "idle"
    /\ todo = <<>>
    /\ fileData = EmptyMap
    /\ buffer = NoBuffer
    /\ twRem = 0
    /\ pre = EmptyFile
    /\ fnPre = EmptyFile
    /\ result = "none"
    /\ last = NoWalk
    /\ hist = NoHist
    /\ invocation = NoInvocation
    /\ \E a \in Algorithms, f \in FileNames, z \in BOOLEAN, l \in Levels, p \in Payloads,
             args \in CreateArgLists :
            codec = [NoCodec EXCEPT !.flagA = a, !.file = f, !.z = z, !.level = l,
                                    !.payload = p, !.args = args, !.phase = "flags"]

\* main after getopt.Parse: the algorithm taken from the file name when -A is
\* not given, and compression switched on when the name gives one.
ParseFlags ==
    /\ codec.phase = "flags"
    /\ LET derive == codec.flagA = "" /\ codec.file # "" /\ codec.file # "-"
           algorithm == IF derive THEN ExtAlgorithm(codec.file) ELSE codec.flagA
       IN  codec' = [codec EXCEPT !.phase = "parsed",
                                  !.algorithm = algorithm,
                                  !.compress = codec.z \/ (derive /\ algorithm # "none")]
    /\ UNCHANGED programVars

\* The sink of a create: os.Stdout for "-", else os.Create of the file, which
\* fails on the empty name and ends the program.
CreateFile ==
    /\ codec.phase = "parsed"
    /\ codec' = [codec EXCEPT !.phase = IF codec.file = "" THEN "noFile" ELSE "created"]
    /\ UNCHANGED programVars

\* The writer of a create: the sink itself without -z, else wrapCompressionWriter
\* (its Close deferred to the return of main); then tar.NewWriter on it.  An
\* error of the constructor ends the program.
WrapWriter ==
    /\ codec.phase = "created"
    /\ LET w == IF codec.compress THEN wrapCompressionWriter(codec.algorithm, codec.level)
                ELSE [format |-> "raw", option |-> "none", err |-> FALSE]
       IN  codec' = [codec EXCEPT !.writer = w,
                                  !.phase = IF w.err THEN "failed" ELSE "writer",
                                  !.tw = IF w.err THEN "none" ELSE "open",
                                  !.cw = IF w.err \/ ~codec.compress THEN "none" ELSE "open",
                                  !.err = w.err]
    /\ UNCHANGED programVars

\* One turn of the loop of create over the arguments.  filepath.Glob rejects a
\* malformed pattern: main prints the error and returns, and the deferred Close
\* of the codec writer runs; the tar writer is left as it is.  Otherwise the
\* files of the argument are written through the tar writer.
CreateWalk ==
    /\ codec.phase = "writer"
    /\ codec.args # <<>>
    /\ IF BadPattern(Head(codec.args))
       THEN codec' = [codec EXCEPT !.phase = "returned",
                                   !.cw = IF codec.cw = "open" THEN "closed" ELSE @,
                                   !.sink = Encode(codec.writer.format, codec.through)]
       ELSE codec' = [codec EXCEPT !.args = Tail(codec.args),
                                   !.through = codec.through \o codec.payload]
    /\ UNCHANGED programVars

\* tw.Close() after the loop.  The cw that main tests next is the package
\* variable, which create never sets: that Close is not reached.
CloseTar ==
    /\ codec.phase = "writer"
    /\ codec.args = <<>>
    /\ codec' = [codec EXCEPT !.tw = "closed", !.phase = "tarClosed"]
    /\ UNCHANGED programVars

\* main returns: the deferred Close of the codec writer ends the stream.
WriteClose ==
    /\ codec.phase = "tarClosed"
    /\ codec' = [codec EXCEPT !.cw = IF codec.cw = "open" THEN "closed" ELSE @,
                              !.sink = Encode(codec.writer.format, codec.through),
                              !.phase = "written"]
    /\ UNCHANGED programVars

\* The reader of a list or an extract on the file just written: the file itself
\* without -z, else wrapCompressionReader; an error ends the program.
WrapReader ==
    /\ codec.phase = "written"
    /\ LET r == IF codec.compress THEN wrapCompressionReader(codec.algorithm)
                ELSE [format |-> "raw", option |-> "none", err |-> FALSE]
       IN  codec' = [codec EXCEPT !.reader = r,
                                  !.phase = IF r.err THEN "failed" ELSE "reader",
                                  !.err = r.err]
    /\ UNCHANGED programVars

\* The file read through the reader to its end.
ReadAll ==
    /\ codec.phase = "reader"
    /\ LET r == Decode(codec.reader.format, codec.sink)
       IN  codec' = [codec EXCEPT !.out = r.data, !.err = r.err, !.phase = "read"]
    /\ UNCHANGED programVars

CodecNext ==
    \/ ParseFlags
    \/ CreateFile
    \/ WrapWriter
    \/ CreateWalk
    \/ CloseTar
    \/ WriteClose
    \/ WrapReader
    \/ ReadAll

CodecSpec == CodecInit /\ [][CodecNext]_vars

(***************************************************************************)
(* Vocabulary of the claims.                                               *)
(***************************************************************************)
\* The canonical rank of the specification: the names are split on the path
\* separator and compared segment by segment; at the first segment that differs
\* the smaller segment decides, and a path that runs out first ranks first.
RanksBefore(A, B) ==
    LET pa == Split(A, PathSeparator)
        pb == Split(B, PathSeparator)
    IN  \E k \in 1..(Min(Len(pa), Len(pb)) + 1) :
            /\ \A j \in 1..(k - 1) : pa[j] = pb[j]
            /\ \/ k <= Len(pa) /\ k <= Len(pb) /\ pa[k] # pb[k] /\ StrLess(pa[k], pb[k])
               \/ k = Len(pa) + 1 /\ k <= Len(pb)

Canonical(members) ==
    \A i, j \in 1..Len(members) : i < j => RanksBefore(members[i].name, members[j].name)

Position(members, name) == CHOOSE i \in 1..Len(members) : members[i].name = name

\* The last member of that name in the file.
LastOf(members, name) ==
    members[CHOOSE i \in 1..Len(members) :
                /\ members[i].name = name
                /\ \A j \in (i + 1)..Len(members) : members[j].name # name]

Running == pc \notin {"idle", "done"}

Succeeded == pc = "done" /\ result = "ok"

\* reorganizeTarball has written its buffer to the file.
ReorganizeWrote == fn = "reorganize" /\ (pc = "chmod" \/ Succeeded)

(***************************************************************************)
(* C1: in the member sequence reorganizeTarball writes, a name A stands    *)
(* before a name B exactly when A ranks before B segment by segment, a     *)
(* pure prefix first; "a/b" stands before "a/b/c" and before "a/c".        *)
(***************************************************************************)
C1_ReorganizeOrder ==
    ReorganizeWrote =>
        /\ \A i, j \in 1..Len(disk.members) :
                i # j => (i < j <=> RanksBefore(disk.members[i].name, disk.members[j].name))
        /\ {a_b, a_b_c} \subseteq NamesOf(disk.members)
                => Position(disk.members, a_b) < Position(disk.members, a_b_c)
        /\ {a_b, a_c} \subseteq NamesOf(disk.members)
                => Position(disk.members, a_b) < Position(disk.members, a_c)

C1_Witness ==
    /\ ReorganizeWrote
    /\ NameSeq(fnPre.members) = <<a_b_c, a_b>>
    /\ NameSeq(disk.members) = <<a_b, a_b_c>>

(***************************************************************************)
(* C2: after every successful append, update, delete or reorganize, in any *)
(* sequence, the members of the file are in canonical order.               *)
(***************************************************************************)
C2_CanonicalAfterSuccess == Succeeded => disk.closed /\ Canonical(disk.members)

C2_Witness ==
    /\ Succeeded
    /\ hist.nops = MaxOps
    /\ op = "append"
    /\ ~Canonical(pre.members \o <<FileHeader(logs_slash, logs)>>)
    /\ logs \in NamesOf(disk.members)
    /\ Len(disk.members) >= 3

(***************************************************************************)
(* C3: reorganizeTarball run on a file that reorganizeTarball wrote leaves *)
(* the file as it was: the same members, with the same names, content and  *)
(* sizes, in the same order.                                               *)
(***************************************************************************)
C3_ReorganizeIdempotent ==
    (fn = "reorganize" /\ Succeeded /\ hist.inputReorganized) => disk = fnPre

C3_Witness ==
    /\ fn = "reorganize"
    /\ op = "reorganize"
    /\ Succeeded
    /\ hist.inputReorganized
    /\ Len(disk.members) >= 2

(***************************************************************************)
(* C4: an operation that fails before its final commit leaves the archive  *)
(* file with the bytes it had when the operation started.                  *)
(***************************************************************************)
C4_FailureLeavesArchive ==
    (pc = "done" /\ result # "ok" /\ ~hist.committing) => disk = pre

(***************************************************************************)
(* C5: in updateTarball, deleteFromTarball and reorganizeTarball the file  *)
(* is first modified by the truncate, which comes only after every entry   *)
(* is in the buffer and the tar writer and the codec writer are closed;    *)
(* then come the seek and the write, in that order.                        *)
(***************************************************************************)
FullyRendered ==
    /\ buffer.twClosed
    /\ compress => buffer.cwClosed
    /\ Len(buffer.members) = Len(fileData)
    /\ NamesOf(buffer.members) = NamesOf(fileData)

C5_TruncateAfterRender ==
    (fn \in Rebuilders /\ Running) =>
        /\ pc \in {"open", "decode", "plan", "render", "closeTw", "closeCw", "truncate"}
                => disk = fnPre
        /\ pc \in {"seek", "write"} => disk = EmptyFile /\ FullyRendered
        /\ pc = "chmod" => disk = Archive(buffer.members) /\ FullyRendered

C5_Witness ==
    /\ fn \in Rebuilders
    /\ pc = "write"
    /\ compress
    /\ Len(buffer.members) >= 2
    /\ fnPre # EmptyFile

(***************************************************************************)
(* C6: while an operation runs, a reader of the file finds the complete    *)
(* file of before the operation or the complete file of after it.          *)
(***************************************************************************)
C6_ReaderSeesOldOrNew ==
    Running =>
        \/ disk = pre
        \/ /\ fn \in Rebuilders
           /\ pc = "chmod"
           /\ disk = Archive(buffer.members)

(***************************************************************************)
(* C7: the name walkpath gives a file after an accepted collision is       *)
(* base_k+ext for the smallest k >= 1 whose probe reports no collision:    *)
(* report_1.txt when report.txt is there, report_2.txt when report_1.txt   *)
(* is there too.  (A probe that ends the program gives no name.)           *)
(***************************************************************************)
C7_SmallestFreeSuffix ==
    (last.accepted /\ result # "panic") =>
        /\ \E k \in 1..(Len(last.file.members) + 1) :
                /\ last.name = Candidate(last.path, k)
                /\ findDuplicateFile(last.file, Candidate(last.path, k), TRUE) # "true"
                /\ \A j \in 1..(k - 1) :
                        findDuplicateFile(last.file, Candidate(last.path, j), TRUE) = "true"
        /\ (last.path = report_txt /\ NamesOf(last.file.members) = {report_txt})
                => last.name = report_1_txt
        /\ (last.path = report_txt /\ NamesOf(last.file.members) = {report_txt, report_1_txt})
                => last.name = report_2_txt

(***************************************************************************)
(* C8: findDuplicateFile(base+ext) reports a collision exactly when the    *)
(* archive holds base+ext or a member base_<n>+ext with <n> a non-negative *)
(* integer.                                                                *)
(***************************************************************************)
IsNumbered(memberName, filename) ==
    LET ext == Ext(filename)
        base == SubSeq(filename, 1, Len(filename) - Len(ext))
        n == Len(memberName) - Len(base) - 1 - Len(ext)
    IN  /\ n >= 1
        /\ HasPrefix(memberName, Append(base, "_"))
        /\ HasSuffix(memberName, ext)
        /\ \A i \in (Len(base) + 2)..(Len(base) + 1 + n) : memberName[i] \in Digits

C8_ProbeIsThePattern ==
    last.probe \in {"true", "false"} =>
        (last.probe = "true" <=>
            \E i \in 1..Len(last.file.members) :
                \/ last.file.members[i].name = last.path
                \/ IsNumbered(last.file.members[i].name, last.path))

(***************************************************************************)
(* C9: walkpath asks once for each colliding non-directory; an answer      *)
(* other than y or Y abandons the file: no header and no content is        *)
(* written for it, and the walk goes on with the next path.                *)
(***************************************************************************)
C9_DeclinedIsSkipped ==
    (fn = "walk" /\ pc = "walk" /\ last.path # <<>>) =>
        /\ last.asked = (IF last.probe = "true" THEN 1 ELSE 0)
        /\ FileSystem[last.path].dir => last.probe = "none"
        /\ last.accepted <=> (last.probe = "true" /\ last.response \in {<<"y">>, <<"Y">>})
        /\ (last.probe = "true" /\ ~last.accepted) =>
                /\ ~last.wrote
                /\ disk = last.file
                /\ twRem = last.rem
                /\ Len(todo) = last.left - 1

C9_Witness ==
    /\ fn = "walk"
    /\ pc = "walk"
    /\ last.probe = "true"
    /\ last.response = <<"n">>
    /\ last.path = report_txt
    /\ disk = last.file
    /\ todo # <<>>

(***************************************************************************)
(* C10: a delete with the pattern "logs/" removes the members whose name   *)
(* starts with "logs/" and no other: a member named "logs" and the members *)
(* outside the subtree remain, content and metadata unchanged.             *)
(***************************************************************************)
C10_DeleteByPrefix ==
    (op = "delete" /\ Succeeded /\ todo = <<logs_slash>>) =>
        /\ NamesOf(disk.members) = {n \in NamesOf(pre.members) : ~HasPrefix(n, logs_slash)}
        /\ \A i \in 1..Len(disk.members) :
                /\ disk.members[i] = LastOf(pre.members, disk.members[i].name)
                /\ \A j \in 1..Len(disk.members) :
                        disk.members[j].name = disk.members[i].name => j = i

C10_Witness ==
    /\ op = "delete"
    /\ Succeeded
    /\ todo = <<logs_slash>>
    /\ NamesOf(pre.members) = {logs, logs_x}
    /\ NameSeq(disk.members) = <<logs>>

(***************************************************************************)
(* C11: a delete whose patterns select no member is not an error: the      *)
(* decode keeps every member, and after the delete the file holds the      *)
(* members of before, names, content and metadata.                         *)
(***************************************************************************)
\* The pattern selects the name: as a glob, or as the root of its subtree.
Selects(pattern, name) ==
    \/ ~BadPattern(pattern) /\ GlobMatches(pattern, name)
    \/ HasPrefix(name, TrimSuffix(pattern, <<"/">>) \o <<"/">>)

NoneSelected(patterns, members) ==
    \A i \in 1..Len(patterns), j \in 1..Len(members) : ~Selects(patterns[i], members[j].name)

DistinctNames(members) ==
    \A i, j \in 1..Len(members) : members[i].name = members[j].name => i = j

C11_NoMatchIsNoOp ==
    (op = "delete" /\ fn = "delete" /\ (Running \/ Succeeded)
                    /\ NoneSelected(todo, pre.members)) =>
        /\ pc \in {"render", "closeTw", "closeCw", "truncate", "seek", "write"}
                => NamesOf(fileData) = NamesOf(pre.members)
        /\ Succeeded =>
                /\ NamesOf(disk.members) = NamesOf(pre.members)
                /\ \A i \in 1..Len(disk.members) :
                        disk.members[i] = LastOf(pre.members, disk.members[i].name)
                /\ DistinctNames(pre.members) => Len(disk.members) = Len(pre.members)

C11_Witness ==
    /\ op = "delete"
    /\ Succeeded
    /\ todo = <<logs_slash>>
    /\ NamesOf(pre.members) = {report_txt, report_1_log}
    /\ Len(disk.members) = 2

(***************************************************************************)
(* C12: a delete with a pattern of invalid glob syntax, on a file that has *)
(* members, ends with an error and leaves the file as it was.              *)
(***************************************************************************)
C12_BadPatternFails ==
    (op = "delete" /\ pc = "done" /\ pre.members # <<>>
            /\ \E i \in 1..Len(todo) : BadPattern(todo[i])) =>
        /\ result = "error"
        /\ disk = pre

(***************************************************************************)
(* C13: after a successful update the file holds the names of before and   *)
(* the names of the input paths; the member of every input path has the    *)
(* content, size and header metadata of the file in the working directory; *)
(* every other member is the member of that name of before.                *)
(***************************************************************************)
InputNames(paths) == {RelSlash(paths[i]) : i \in 1..Len(paths)}

C13_UpdateReplacesAndInserts ==
    (op = "update" /\ Succeeded) =>
        LET paths == WalkAll(todo).paths
        IN  /\ NamesOf(disk.members) = NamesOf(pre.members) \cup InputNames(paths)
            /\ DistinctNames(disk.members)
            /\ \A i \in 1..Len(paths) :
                    LET m == LastOf(disk.members, RelSlash(paths[i]))
                        f == FileSystem[paths[i]]
                    IN  /\ m.dir = f.dir
                        /\ m.content = f.content
                        /\ m.size = Len(f.content)
                        /\ m.meta = "fs"
            /\ \A i \in 1..Len(disk.members) :
                    disk.members[i].name \notin InputNames(paths)
                        => disk.members[i] = LastOf(pre.members, disk.members[i].name)

C13_Witness ==
    /\ op = "update"
    /\ Succeeded
    /\ todo = <<report_txt, logs_slash>>
    /\ NameSeq(pre.members) = <<report_txt, report_1_log>>
    /\ LastOf(pre.members, report_txt).content # <<9>>
    /\ NameSeq(disk.members) = <<logs, logs_x, report_txt, report_1_log>>
    /\ LastOf(disk.members, report_txt).content = <<9>>

(***************************************************************************)
(* C14: when a command line asks for an add (update or append) and then    *)
(* for a delete, the delete acts on the file the add left: after the       *)
(* command no member that the arguments select is in the file.             *)
(***************************************************************************)
C14_RequestsInOrder ==
    (pc = "done" /\ result = "ok" /\ invocation.next = "none"
            /\ invocation.order = "add-delete") =>
        \A i \in 1..Len(invocation.args), j \in 1..Len(disk.members) :
            ~Selects(invocation.args[i], disk.members[j].name)

(***************************************************************************)
(* C15: a decode error aborts the operation that met it.  A rebuild on a   *)
(* file that cannot be decoded ends with an error before it renders        *)
(* anything and leaves the file alone; a walkpath call whose collision     *)
(* probe met a decode error ends the append with an error, the file as it  *)
(* was when the call began.                                                *)
(***************************************************************************)
C15_DecodeErrorAborts ==
    /\ (fn \in Rebuilders /\ ReadError(fnPre)) =>
            /\ pc \in {"open", "decode", "done"}
            /\ disk = fnPre
            /\ pc = "done" => result = "error"
    /\ (last.probe = "error" /\ last.opened) =>
            /\ pc = "done"
            /\ result = "error"
            /\ disk = last.file

(***************************************************************************)
(* C16: an append one of whose steps failed, the closing reorganize        *)
(* included, tells its caller that it failed.                              *)
(***************************************************************************)
C16_AppendReportsFailure ==
    (op = "append" /\ pc = "done" /\ result = "error") => hist.reported = "error"

(***************************************************************************)
(* C17: after every successful append, update, delete or reorganize no two *)
(* members of the file have the same name.                                 *)
(***************************************************************************)
C17_NamesDistinct == Succeeded => DistinctNames(disk.members)

C17_Witness ==
    /\ Succeeded
    /\ op = "reorganize"
    /\ NameSeq(pre.members) = <<report_txt, report_txt>>
    /\ NameSeq(disk.members) = <<report_txt>>

(***************************************************************************)
(* C18: an append with compression does not replace a member: when a       *)
(* non-directory input path has the name of a member of the file, that     *)
(* member is in the file after the append as it was before (the new file   *)
(* is stored under another name, or not at all).                           *)
(***************************************************************************)
C18_CompressedAppendResolves ==
    (op = "append" /\ compress /\ Succeeded) =>
        LET paths == WalkAll(todo).paths
        IN  \A i \in 1..Len(paths) :
                (~FileSystem[paths[i]].dir /\ RelSlash(paths[i]) \in NamesOf(pre.members)) =>
                    /\ RelSlash(paths[i]) \in NamesOf(disk.members)
                    /\ LastOf(disk.members, RelSlash(paths[i]))
                            = LastOf(pre.members, RelSlash(paths[i]))

(***************************************************************************)
(* C19: with no algorithm selected ("" or "none") wrapCompressionWriter    *)
(* and wrapCompressionReader are the identity: the sink holds the bytes    *)
(* written, and the reader is made and read without error and gives the    *)
(* bytes of the source.                                                    *)
(***************************************************************************)
C19_NoAlgorithmIsIdentity ==
    (codec.phase \in {"writer", "written", "reader", "read", "failed"}
            /\ codec.algorithm \in {"", "none"}) =>
        /\ ~codec.err
        /\ codec.writer.format = "raw"
        /\ codec.phase \in {"written", "reader", "read"} => codec.sink = Raw(codec.payload)
        /\ codec.phase = "read" => codec.out = codec.payload

(***************************************************************************)
(* C20: for each of gzip, zlib, bzip2, s2, zstd, lzma, lz4, xz and brotli  *)
(* the reader is of the format of the writer, and what is read back after  *)
(* the writer was closed is the payload written, empty or not.             *)
(***************************************************************************)
Supported == {"gzip", "zlib", "bzip2", "s2", "zstd", "lzma", "lz4", "xz", "brotli"}

C20_CodecRoundTrip ==
    codec.algorithm \in Supported =>
        /\ codec.phase \in {"reader", "read"} => codec.reader.format = codec.writer.format
        /\ codec.phase = "written" /\ codec.compress
                => ~wrapCompressionReader(codec.algorithm).err
        /\ codec.phase = "read" => ~codec.err /\ codec.out = codec.payload

C20_Witness ==
    /\ codec.phase = "read"
    /\ codec.algorithm = "xz"
    /\ codec.compress
    /\ codec.sink.format = "xz"
    /\ codec.payload = <<7, 0, 7>>
    /\ codec.out = <<7, 0, 7>>

(***************************************************************************)
(* C21: in the buffer that updateTarball, deleteFromTarball and            *)
(* reorganizeTarball render, and in the file they write from it, the size  *)
(* of every non-directory member is the length of its content, whatever    *)
(* size its header came with, and every directory member has no content.   *)
(***************************************************************************)
SizesMatch(members) ==
    \A i \in 1..Len(members) :
        IF members[i].dir THEN members[i].content = <<>>
        ELSE members[i].size = Len(members[i].content)

C21_SizeIsContentLength ==
    fn \in Rebuilders =>
        /\ pc \in {"closeTw", "closeCw", "truncate", "seek", "write", "chmod"}
                => SizesMatch(buffer.members)
        /\ (pc = "chmod" \/ Succeeded) => SizesMatch(disk.members)

C21_Witness ==
    /\ op = "update"
    /\ Succeeded
    /\ todo = <<logs_slash>>
    /\ FileSystem[logs_x].size = 1
    /\ LastOf(disk.members, logs_x).size = 2
    /\ LastOf(disk.members, logs_x).content = <<8, 8>>
    /\ LastOf(disk.members, logs).dir
    /\ LastOf(disk.members, logs).content = <<>>

(***************************************************************************)
(* C22: with a codec active, the codec writer is closed only when every    *)
(* argument has been walked and the tar writer has been closed.            *)
(***************************************************************************)
C22_CodecClosedLast ==
    (codec.compress /\ codec.cw = "closed") =>
        /\ codec.tw = "closed"
        /\ codec.args = <<>>

(***************************************************************************)
(* C23: no member of the file reorganizeTarball has written has a name     *)
(* that ends in the path separator.                                        *)
(***************************************************************************)
C23_NoTrailingSeparator ==
    ReorganizeWrote =>
        \A i \in 1..Len(disk.members) : ~HasSuffix(disk.members[i].name, <<PathSeparator>>)

(***************************************************************************)
(* C24: for s2 and lz4 a higher level never gives a weaker setting than a  *)
(* lower one, and a level outside 1..9 gives the setting of the nearest    *)
(* level inside.                                                           *)
(***************************************************************************)
\* The settings of a codec from the fastest to the best, as its package
\* documents them: s2 default, better, best; lz4 Fast, Level1 .. Level9.
SettingRank(w) ==
    IF w.format = "s2"
    THEN (CASE w.option = "default" -> 0 [] w.option = "better" -> 1 [] w.option = "best" -> 2)
    ELSE IF w.option = "Fast" THEN 0
    ELSE CHOOSE i \in 1..9 : Lz4Levels[i] = w.option

\* The nearest level the switch on the level names (0 is lz4.Fast).
Clamped(level) == IF level < 0 THEN 0 ELSE IF level > 9 THEN 9 ELSE level

C24_LevelMonotone ==
    (codec.phase = "writer" /\ codec.algorithm \in {"s2", "lz4"} /\ codec.compress) =>
        /\ \A higher \in Levels :
                codec.level < higher =>
                    SettingRank(codec.writer)
                        <= SettingRank(wrapCompressionWriter(codec.algorithm, higher))
        /\ codec.writer = wrapCompressionWriter(codec.algorithm, Clamped(codec.level))

(***************************************************************************)
(* C25: findDuplicateFile answers true, false or an error for every name   *)
(* and every file; neither the probe of walkpath nor a probe of            *)
(* addNumericSuffix ends the program with a slice out of range.            *)
(***************************************************************************)
C25_ProbeNeverPanics ==
    /\ last.probe \in {"none", "true", "false", "error"}
    /\ result # "panic"

(***************************************************************************)
(* C26: the loop of addNumericSuffix ends with a name: after an accepted   *)
(* collision the program goes on with base_k+ext for a k of at most twice  *)
(* the number of members plus one (a member can make the probe of at most  *)
(* two candidates report a collision), and the probe of that name reports  *)
(* no collision.                                                           *)
(***************************************************************************)
C26_SuffixLoopEnds ==
    last.accepted =>
        /\ result # "panic"
        /\ \E k \in 1..(2 * Len(last.file.members) + 1) :
                /\ last.name = Candidate(last.path, k)
                /\ findDuplicateFile(last.file, last.name, TRUE) \in {"false", "error"}

(***************************************************************************)
(* C27: the name walkpath goes on with after an accepted collision is the  *)
(* name of no member the file holds at that moment; when the header is     *)
(* written, the new member has that name and the members before it are     *)
(* the members of that moment.                                             *)
(***************************************************************************)
C27_RenamedIsNew ==
    (last.accepted /\ result # "panic") =>
        /\ last.name \notin NamesOf(last.file.members)
        /\ last.name # last.path
        /\ (last.wrote /\ fn = "walk") =>
                /\ Len(disk.members) >= Len(last.file.members) + 1
                /\ disk.members[Len(last.file.members) + 1].name = last.name
                /\ NameSeq(SubSeq(disk.members, 1, Len(last.file.members)))
                        = NameSeq(last.file.members)

(***************************************************************************)
(* C28: after a successful append on a file whose names are distinct,      *)
(* every member of before is in the file under its name with the content   *)
(* it had, with -z or without.                                             *)
(***************************************************************************)
C28_AppendKeepsMembers ==
    (op = "append" /\ Succeeded /\ DistinctNames(pre.members)) =>
        \A i \in 1..Len(pre.members) :
            /\ pre.members[i].name \in NamesOf(disk.members)
            /\ LastOf(disk.members, pre.members[i].name).content = pre.members[i].content

(***************************************************************************)
(* C29: in the order sortedKeys gives the write loop, a name D stands      *)
(* before every name of its subtree (the names that begin with D and the   *)
(* path separator), and every name between D and a name of its subtree is  *)
(* a name of that subtree.                                                 *)
(***************************************************************************)
InSubtree(D, name) == HasPrefix(name, TrimSuffix(D, <<PathSeparator>>) \o <<PathSeparator>>)

SubtreesContiguous(names) ==
    \A d, x \in 1..Len(names) :
        (d # x /\ InSubtree(names[d], names[x])) =>
            /\ d < x
            /\ \A n \in (d + 1)..(x - 1) : InSubtree(names[d], names[n])

C29_SubtreeContiguous ==
    (fn \in Rebuilders /\ pc \in {"closeTw", "closeCw", "truncate", "seek", "write", "chmod"})
        => SubtreesContiguous(NameSeq(buffer.members))

C29_Witness ==
    /\ fn = "update"
    /\ pc = "closeTw"
    /\ NameSeq(fnPre.members) = <<logs_txt, logs_slash>>
    /\ NameSeq(buffer.members) = <<logs, logs_slash, logs_x, logs_txt>>

(***************************************************************************)
(* C30: for every name the file holds when updateTarball,                  *)
(* deleteFromTarball or reorganizeTarball starts, several times or once,   *)
(* that the patterns of the delete do not select and that is not the name  *)
(* of an input path of the update, the buffer rendered and the file        *)
(* written hold exactly one member of that name: the last member of that   *)
(* name in the file read, header and content.                              *)
(***************************************************************************)
Occurrences(members, name) == {i \in 1..Len(members) : members[i].name = name}

Carried(name) ==
    /\ name \in NamesOf(fnPre.members)
    /\ fn = "delete" => \A i \in 1..Len(todo) : ~Selects(todo[i], name)
    /\ fn = "update" => name \notin InputNames(WalkAll(todo).paths)

OneLastOccurrence(written, name) ==
    /\ Cardinality(Occurrences(written, name)) = 1
    /\ LastOf(written, name) = LastOf(fnPre.members, name)

C30_LastOccurrenceWins ==
    (fn \in Rebuilders /\ (Running \/ Succeeded)) =>
        \A name \in NamesOf(fnPre.members) :
            Carried(name) =>
                /\ pc \in {"closeTw", "closeCw", "truncate", "seek", "write", "chmod"}
                        => OneLastOccurrence(buffer.members, name)
                /\ (pc = "chmod" \/ Succeeded) => OneLastOccurrence(disk.members, name)

C30_Witness ==
    /\ fn = "delete"
    /\ Succeeded
    /\ todo = <<logs_slash>>
    /\ NameSeq(fnPre.members) = <<report_txt, report_txt>>
    /\ fnPre.members[1].content = <<1>>
    /\ fnPre.members[2].content = <<2, 2>>
    /\ Len(disk.members) = 1
    /\ disk.members[1].content = <<2, 2>>

====
